---- MODULE Spec2Model ----
(***************************************************************************)
(* A model of odin_market_feed/MarketFeedClient.py: the two-level framing  *)
(* codec (FragmentationHandler), the zlib wrapper (ZLIBCompressor) and the *)
(* inbound path of ODINMarketFeedClient (_response_received).              *)
(*                                                                         *)
(* Bytes are integers 0..255, byte strings are sequences of bytes, Python  *)
(* str values are sequences of code points.  A Python exception leaving a  *)
(* function is the field raised = TRUE of the record the operator returns. *)
(***************************************************************************)
EXTENDS Integers, Sequences, FiniteSets, TLC

(***************************************************************************)
(* Bounds of the model.                                                    *)
(***************************************************************************)
\* Most items (frames or runs of garbage) in one inbound stream.
MaxItems == 2
\* Largest chunk the transport delivers short of "all that is left".
MaxChunk == 2
MaxSessionItems == 2
\* How far below and above the largest 5-digit length, and how far above 0,
\* the compressed lengths handed to fragment_data's framing go.
NearCeiling == 40
\* The send_message calls of a run, the login of connect apart.
MaxSends == 2
\* The frames the transport holds at most in a run with a disconnect.
MaxLifecycleItems == 2
\* The connect calls that open a connection in a run of one client.
MaxConnections == 2

(***************************************************************************)
(* Constants of the program.                                               *)
(***************************************************************************)
MINIMUM_PACKET_SIZE == 5
PACKET_HEADER_SIZE == 5
MESSAGE_LENGTH_LENGTH == 5
\* header[0] not in [5, 2]
TAG_COMPRESSED == 5
TAG_OTHER == 2
\* self.header_length = 6, assigned by fragment_data only
HEADER_LENGTH == 6
\* zfill(6)
ZFILL_WIDTH == 6
\* The value of an attribute that __init__ never assigned (reading it raises
\* AttributeError).
NoAttr == -1
\* First byte of every stream zlib.compress produces (CMF, 0x78).
ZMAGIC == 120

(***************************************************************************)
(* Byte-string helpers.                                                    *)
(***************************************************************************)
Min(a, b) == IF a < b THEN a ELSE b
Max(a, b) == IF a > b THEN a ELSE b

IsDigit(b) == b >= 48 /\ b <= 57
IsAscii(b) == b < 128
AllAscii(s) == \A i \in 1..Len(s) : IsAscii(s[i])

\* s[from:to] of Python for 0 <= from: the bytes at 0-based from..to-1 that exist.
Slice(s, from, to) == SubSeq(s, from + 1, Min(to, Len(s)))

\* The concatenation of a sequence of sequences, and the sum of a sequence
\* of numbers; both by halves, which keeps the evaluation shallow.
RECURSIVE Concat(_)
Concat(ss) ==
    IF ss = <<>> THEN <<>>
    ELSE IF Len(ss) = 1 THEN ss[1]
    ELSE Concat(SubSeq(ss, 1, Len(ss) \div 2))
             \o Concat(SubSeq(ss, (Len(ss) \div 2) + 1, Len(ss)))

RECURSIVE Sum(_)
Sum(s) ==
    IF s = <<>> THEN 0
    ELSE IF Len(s) = 1 THEN s[1]
    ELSE Sum(SubSeq(s, 1, Len(s) \div 2)) + Sum(SubSeq(s, (Len(s) \div 2) + 1, Len(s)))

\* str(n) for n >= 0, as ASCII bytes.
RECURSIVE DecStr(_)
DecStr(n) == IF n < 10 THEN <<48 + n>> ELSE DecStr(n \div 10) \o <<48 + (n % 10)>>

\* str.zfill(w) of a string without sign.
RECURSIVE zfill(_, _)
zfill(s, w) == IF Len(s) >= w THEN s ELSE zfill(<<48>> \o s, w)

\* The value of a string of ASCII digits and underscores, underscores skipped.
RECURSIVE DigitsValue(_, _)
DigitsValue(s, acc) ==
    IF s = <<>> THEN acc
    ELSE IF Head(s) = 95 THEN DigitsValue(Tail(s), acc)
    ELSE DigitsValue(Tail(s), 10 * acc + (Head(s) - 48))

IsSpace(b) == b \in {9, 10, 11, 12, 13, 32}

RECURSIVE LStrip(_)
LStrip(s) == IF s # <<>> /\ IsSpace(Head(s)) THEN LStrip(Tail(s)) ELSE s

RECURSIVE RStrip(_)
RStrip(s) == IF s # <<>> /\ IsSpace(s[Len(s)]) THEN RStrip(SubSeq(s, 1, Len(s) - 1)) ELSE s

\* int(s) of Python for an ASCII str: surrounding whitespace, one optional
\* sign, digits with single underscores between them.  ok = FALSE is ValueError.
IsIntLiteral(d) ==
    /\ d # <<>>
    /\ IsDigit(d[1]) /\ IsDigit(d[Len(d)])
    /\ \A i \in 1..Len(d) : IsDigit(d[i]) \/ d[i] = 95
    /\ \A i \in 1..(Len(d) - 1) : ~(d[i] = 95 /\ d[i + 1] = 95)

SignedInt(t) ==
    IF t # <<>> /\ Head(t) \in {43, 45}
    THEN IF ~IsIntLiteral(Tail(t)) THEN [ok |-> FALSE, val |-> 0]
         ELSE [ok |-> TRUE,
               val |-> (IF Head(t) = 45 THEN -1 ELSE 1) * DigitsValue(Tail(t), 0)]
    ELSE IF ~IsIntLiteral(t) THEN [ok |-> FALSE, val |-> 0]
         ELSE [ok |-> TRUE, val |-> DigitsValue(t, 0)]

PyInt(s) == SignedInt(RStrip(LStrip(s)))

(***************************************************************************)
(* ZLIBCompressor.  zlib is a library outside the repository; it is        *)
(* modelled as a codec with the properties the program relies on: a magic  *)
(* first byte, a body that is a run-length coding of the data (so that the *)
(* compressed length differs from the data's), and a trailing checksum,    *)
(* with uncompress failing on anything that is not such a stream.          *)
(***************************************************************************)
\* Two run-length codings joined: the last run of a and the first run of b
\* become one run when they repeat the same byte and the count fits a byte.
RunJoin(a, b) ==
    IF a[Len(a)] = b[2] /\ a[Len(a) - 1] + b[1] <= 255
    THEN SubSeq(a, 1, Len(a) - 2) \o <<a[Len(a) - 1] + b[1], b[2]>>
             \o SubSeq(b, 3, Len(b))
    ELSE a \o b

\* The run-length coding of d as (count, byte) pairs, by halves.
RECURSIVE RunEncode(_)
RunEncode(d) ==
    IF d = <<>> THEN <<>>
    ELSE IF Len(d) = 1 THEN <<1, d[1]>>
    ELSE RunJoin(RunEncode(SubSeq(d, 1, Len(d) \div 2)),
                 RunEncode(SubSeq(d, (Len(d) \div 2) + 1, Len(d))))

RunDecode(c) ==
    Concat([i \in 1..(Len(c) \div 2) |-> [j \in 1..c[2 * i - 1] |-> c[2 * i]]])

Checksum(d) == (1 + Sum(d)) % 256

compress(data) == <<ZMAGIC>> \o RunEncode(data) \o <<Checksum(data)>>

\* Whether data has the shape of a compressed stream: the magic byte, a body
\* of (count, byte) pairs with counts >= 1, and one checksum byte.
IsStream(data) ==
    /\ Len(data) >= 2
    /\ data[1] = ZMAGIC
    /\ Len(data) % 2 = 0
    /\ \A i \in 2..(Len(data) - 1) : (i % 2 = 0) => data[i] >= 1

Verified(d, sum) ==
    IF Checksum(d) = sum THEN [raised |-> FALSE, data |-> d]
    ELSE [raised |-> TRUE, data |-> <<>>]

\* raised = TRUE is zlib.error.
uncompress(data) ==
    IF ~IsStream(data) THEN [raised |-> TRUE, data |-> <<>>]
    ELSE Verified(RunDecode(SubSeq(data, 2, Len(data) - 1)), data[Len(data)])

(***************************************************************************)
(* FragmentationHandler.  The object's fields are passed in and the new    *)
(* values are returned: ms is memory_stream's content, lwi is              *)
(* last_written_index, hl is header_length, hc is header_char.  A callee's *)
(* result is handed to the operator that models the code after the call.   *)
(***************************************************************************)

\* A slip in fragment_data: zfill(5), so that the tag replaces a digit that
\* counts and the header is one byte short.
FrameHeaderNarrow(n) ==
    <<TAG_COMPRESSED>> \o Tail(zfill(DecStr(n), MESSAGE_LENGTH_LENGTH))

\* fragment_data's header: str(n).zfill(6) with byte 0 replaced by the tag 5.
FrameHeader(n) == <<TAG_COMPRESSED>> \o Tail(zfill(DecStr(n), ZFILL_WIDTH))

\* A slip in fragment_data: the length written without zfill.
FramedUnpadded(compressed) ==
    <<TAG_COMPRESSED>> \o DecStr(Len(compressed)) \o compressed

Framed(compressed) == FrameHeader(Len(compressed)) \o compressed

\* fragment_data(data): the bytes returned, and the two fields it assigns.
fragment_data(data) ==
    [bytes |-> Framed(compress(data)),
     hl |-> HEADER_LENGTH,
     hc |-> [i \in 1..MESSAGE_LENGTH_LENGTH |-> 0]]

\* _is_length(header): raised = TRUE is the UnicodeDecodeError of
\* header[1:6].decode('ascii').
_is_length(header) ==
    IF Len(header) # PACKET_HEADER_SIZE + 1 THEN [raised |-> FALSE, val |-> -1]
    ELSE IF header[1] \notin {TAG_COMPRESSED, TAG_OTHER} THEN [raised |-> FALSE, val |-> -1]
    ELSE IF ~AllAscii(Slice(header, 1, 6)) THEN [raised |-> TRUE, val |-> -1]
    ELSE IF ~(\A i \in 2..Len(header) : IsDigit(header[i]))
         THEN [raised |-> FALSE, val |-> -1]
    ELSE [raised |-> FALSE, val |-> DigitsValue(Slice(header, 1, 6), 0)]

\* int(s_length) inside the try of _get_message_length: an exception gives 0.
IntOrZero(parsed) == IF parsed.ok THEN parsed.val ELSE 0

\* The tail of _get_message_length once header_char holds the digits:
\* decode('ascii') and int(), every exception returning 0.
ParsedLength(hc, start_index) ==
    [len |-> IF ~AllAscii(SubSeq(hc, 1, start_index)) THEN 0
             ELSE IntOrZero(PyInt(SubSeq(hc, 1, start_index))),
     hc |-> hc]

\* The for loop of _get_message_length: header_char after it, with
\* message_data[1 .. min(header_length, len) - 1] copied to its front.
CopiedHeader(message_data, hc, start_index) ==
    [i \in 1..Len(hc) |-> IF i <= start_index THEN message_data[i + 1] ELSE hc[i]]

\* _get_message_length(message_data): the length and header_char afterwards.
\* Reading the unassigned header_length raises AttributeError inside the try,
\* which returns 0 like every other exception there.
_get_message_length(message_data, hl, hc) ==
    IF Len(message_data) = 0 THEN [len |-> 0, hc |-> hc]
    ELSE IF hl = NoAttr THEN [len |-> 0, hc |-> hc]
    ELSE ParsedLength(CopiedHeader(message_data, hc, Min(hl, Len(message_data)) - 1),
                      Min(hl, Len(message_data)) - 1)

\* The while True loop of _defragment_inner_data over message_data; acc holds
\* packet_list, header_char and the count of printed decompression errors.
\* One iteration of a loop, as acc records it: where it found the position
\* (or the length of what is left), where it left it, and whether the loop
\* ended with it.
Iteration(from, to, stop) == [from |-> from, to |-> to, stop |-> stop]

\* A slip in _defragment_inner_data: the rest is cut after the header only.
RestAfterHeader(message_data, length, hl) ==
    Slice(message_data, hl, Len(message_data))

\* line 148: message_data[uncompress_msg_length + header_length:]
Rest(message_data, length, hl) ==
    Slice(message_data, length + hl, Len(message_data))

RECURSIVE InnerLoop(_, _, _)
RECURSIVE InnerStep(_, _, _, _)
RECURSIVE InnerAppended(_, _, _, _)

\* lines 135..148: the element is appended, and the loop goes on with rest
\* when something remains.
InnerAppended(message_data, acc, hl, rest) ==
    IF Len(message_data) - acc.len - hl <= 0
    THEN [acc EXCEPT !.inner =
              Append(@, Iteration(Len(message_data), Len(message_data), TRUE))]
    ELSE InnerLoop(rest,
                   [acc EXCEPT !.inner =
                        Append(@, Iteration(Len(message_data), Len(rest), FALSE))],
                   hl)

InnerStep(message_data, acc, hl, g) ==
    IF g.len <= 0
    THEN [acc EXCEPT !.hc = g.hc,
                     !.inner = Append(@, Iteration(Len(message_data),
                                                   Len(message_data), TRUE))]
    ELSE InnerAppended(message_data,
                   [acc EXCEPT !.hc = g.hc,
                               !.len = g.len,
                               !.packet_list =
                                   Append(@, Slice(message_data, hl, hl + g.len))],
                       hl, Rest(message_data, g.len, hl))
InnerLoop(message_data, acc, hl) ==
    InnerStep(message_data, acc, hl, _get_message_length(message_data, hl, acc.hc))

\* _defragment_inner_data after the call of uncompress: its exception is
\* caught and printed, and nothing else is done with it.
Uncompressed(u, acc, hl) ==
    IF u.raised THEN [acc EXCEPT !.printed = @ + 1]
    ELSE InnerLoop(u.data, acc, hl)

\* _defragment_inner_data(compress_data, packet_list)
_defragment_inner_data(compress_data, acc, hl) ==
    Uncompressed(uncompress(compress_data), acc, hl)

\* BytesIO.read(n) at position tell.
StreamRead(ms, tell, n) == Slice(ms, tell, tell + n)

ScanDone(acc, bytes_parsed) ==
    [raised |-> FALSE, bytes_parsed |-> bytes_parsed, acc |-> acc]

\* The while loop of _defragment_data; tell is memory_stream.tell().
RECURSIVE ScanLoop(_, _, _, _, _, _)
RECURSIVE ScanHeader(_, _, _, _, _, _, _)
RECURSIVE ScanPacket(_, _, _, _, _, _, _)
RECURSIVE ScanFrame(_, _, _, _, _, _, _, _)

\* lines 99..101: the frame is complete; compress_data is what read returned.
ScanFrame(ms, lwi, hl, acc, tell, bytes_parsed, packet_size, compress_data) ==
    ScanLoop(ms, lwi, hl,
             _defragment_inner_data(
                 compress_data,
                 [acc EXCEPT !.outer =
                      Append(@, Iteration(tell - (PACKET_HEADER_SIZE + 1),
                                          tell + Len(compress_data), FALSE))],
                 hl),
             tell + Len(compress_data),
             bytes_parsed + PACKET_HEADER_SIZE + 1 + packet_size)

\* lines 93..103: p is what _is_length returned, tell the position after the
\* header.  An exception of _is_length leaves the loop and the function.
ScanPacket(ms, lwi, hl, acc, tell, bytes_parsed, p) ==
    IF p.raised
    THEN [raised |-> TRUE, bytes_parsed |-> bytes_parsed,
          acc |-> [acc EXCEPT !.outer =
                       Append(@, Iteration(tell - (PACKET_HEADER_SIZE + 1), tell, TRUE))]]
    ELSE IF p.val <= 0
    THEN ScanLoop(ms, lwi, hl,
                  [acc EXCEPT !.outer =
                       Append(@, Iteration(tell - (PACKET_HEADER_SIZE + 1),
                                           tell - PACKET_HEADER_SIZE, FALSE))],
                  tell - PACKET_HEADER_SIZE, bytes_parsed + 1)
    ELSE IF tell + p.val <= lwi + 1
    THEN ScanFrame(ms, lwi, hl, acc, tell, bytes_parsed, p.val,
                   StreamRead(ms, tell, p.val))
    ELSE ScanDone([acc EXCEPT !.outer =
                       Append(@, Iteration(tell - (PACKET_HEADER_SIZE + 1), tell, TRUE))],
                  bytes_parsed)

\* lines 87..91: header is what read(PACKET_HEADER_SIZE + 1) returned.
ScanHeader(ms, lwi, hl, acc, tell, bytes_parsed, header) ==
    IF Len(header) < PACKET_HEADER_SIZE + 1
    THEN ScanDone([acc EXCEPT !.outer =
                       Append(@, Iteration(tell, tell + Len(header), TRUE))],
                  bytes_parsed)
    ELSE ScanPacket(ms, lwi, hl, acc, tell + Len(header), bytes_parsed,
                    _is_length(header))

\* lines 84..85: the loop condition.
ScanLoop(ms, lwi, hl, acc, tell, bytes_parsed) ==
    IF ~(tell < lwi - MINIMUM_PACKET_SIZE) THEN ScanDone(acc, bytes_parsed)
    ELSE ScanHeader(ms, lwi, hl, acc, tell, bytes_parsed,
                    StreamRead(ms, tell, PACKET_HEADER_SIZE + 1))

\* A slip in _clear_processed_data: the buffer is reset after every pass that
\* parsed something, the unparsed tail with it.
ClearDropsTail(ms, lwi, length) ==
    IF length <= 0 THEN [ms |-> ms, lwi |-> lwi] ELSE [ms |-> <<>>, lwi |-> -1]

\* A slip in _clear_processed_data: the tail is read from one byte too far.
ClearSkipsOne(ms, lwi, length) ==
    IF length <= 0 THEN [ms |-> ms, lwi |-> lwi]
    ELSE IF length >= lwi + 1 THEN [ms |-> <<>>, lwi |-> -1]
    ELSE [ms |-> Slice(ms, length + 1, lwi + 1),
          lwi |-> ((lwi + 1) - length) - 1]

\* _clear_processed_data(length): memory_stream and last_written_index after.
_clear_processed_data(ms, lwi, length) ==
    IF length <= 0 THEN [ms |-> ms, lwi |-> lwi]
    ELSE IF length >= lwi + 1 THEN [ms |-> <<>>, lwi |-> -1]
    ELSE [ms |-> StreamRead(ms, length, (lwi + 1) - length),
          lwi |-> ((lwi + 1) - length) - 1]

Cleared(s, c) ==
    [raised |-> FALSE, packet_list |-> s.acc.packet_list, ms |-> c.ms,
     lwi |-> c.lwi, hc |-> s.acc.hc, printed |-> s.acc.printed,
     outer |-> s.acc.outer, inner |-> s.acc.inner]

\* The end of _defragment_data: an exception of _is_length has left before
\* _clear_processed_data and before the return.
Scanned(ms, lwi, s) ==
    IF s.raised
    THEN [raised |-> TRUE, packet_list |-> <<>>, ms |-> ms, lwi |-> lwi,
          hc |-> s.acc.hc, printed |-> s.acc.printed,
          outer |-> s.acc.outer, inner |-> s.acc.inner]
    ELSE Cleared(s, _clear_processed_data(ms, lwi, s.bytes_parsed))

\* _defragment_data()
_defragment_data(ms, lwi, hl, hc) ==
    Scanned(ms, lwi,
            ScanLoop(ms, lwi, hl,
                     [packet_list |-> <<>>, hc |-> hc, printed |-> 0, len |-> 0,
                      outer |-> <<>>, inner |-> <<>>],
                     0, 0))

\* BytesIO: seek(at) then write(data).
StreamWrite(ms, at, data) ==
    SubSeq(ms, 1, at) \o data \o SubSeq(ms, at + Len(data) + 1, Len(ms))

\* defragment(data)
defragment(ms, lwi, hl, hc, disposed, data) ==
    IF disposed
    THEN [raised |-> FALSE, packet_list |-> <<>>, ms |-> ms, lwi |-> lwi,
          hc |-> hc, printed |-> 0, outer |-> <<>>, inner |-> <<>>]
    ELSE _defragment_data(StreamWrite(ms, lwi + 1, data),
                          (lwi + 1 + Len(data)) - 1, hl, hc)

(***************************************************************************)
(* ODINMarketFeedClient._response_received: the decoding of one            *)
(* sub-message.  A str is a sequence of code points.                       *)
(***************************************************************************)

\* "|50="
MARKER == <<124, 53, 48, 61>>

IsCont(b) == b >= 128 /\ b <= 191

\* The range of the second byte of a 3- or 4-byte UTF-8 sequence.
SecondOk(lead, b) ==
    CASE lead = 224 -> b >= 160 /\ b <= 191
      [] lead = 237 -> b >= 128 /\ b <= 159
      [] lead = 240 -> b >= 144 /\ b <= 191
      [] lead = 244 -> b >= 128 /\ b <= 143
      [] OTHER -> IsCont(b)

\* What the byte at position i of b gives in bytes.decode('utf-8',
\* errors='ignore'): itself when ASCII, a code point when it starts a valid
\* sequence that is complete, nothing otherwise (a byte that starts no valid
\* sequence is dropped; the later bytes of a sequence give nothing).
Utf8At(b, i) ==
    IF b[i] < 128 THEN <<b[i]>>
    ELSE IF b[i] >= 194 /\ b[i] <= 223
    THEN IF i + 1 <= Len(b) /\ IsCont(b[i + 1])
         THEN <<(b[i] - 192) * 64 + (b[i + 1] - 128)>>
         ELSE <<>>
    ELSE IF b[i] >= 224 /\ b[i] <= 239
    THEN IF i + 2 <= Len(b) /\ SecondOk(b[i], b[i + 1]) /\ IsCont(b[i + 2])
         THEN <<(b[i] - 224) * 4096 + (b[i + 1] - 128) * 64 + (b[i + 2] - 128)>>
         ELSE <<>>
    ELSE IF b[i] >= 240 /\ b[i] <= 244
    THEN IF i + 3 <= Len(b) /\ SecondOk(b[i], b[i + 1]) /\ IsCont(b[i + 2])
            /\ IsCont(b[i + 3])
         THEN <<(b[i] - 240) * 262144 + (b[i + 1] - 128) * 4096
                  + (b[i + 2] - 128) * 64 + (b[i + 3] - 128)>>
         ELSE <<>>
    ELSE <<>>

\* bytes.decode('utf-8', errors='ignore'), as a sequence of code points.
Utf8Ignore(b) == Concat([i \in 1..Len(b) |-> Utf8At(b, i)])

\* s.index(sub), 0-based; -1 when sub is not in s (the test "|50=" in
\* str_msg is FALSE).
Least(S) == IF S = {} THEN -1 ELSE CHOOSE i \in S : \A j \in S : i <= j

Index(s, sub) ==
    Least({ i \in 0..(Len(s) - Len(sub)) : SubSeq(s, i + 1, i + Len(sub)) = sub })

\* struct.unpack('<i', b)[0] for 4 bytes.
UnpackSigned(b) ==
    b[1] + 256 * b[2] + 65536 * b[3]
        + 16777216 * (IF b[4] >= 128 THEN b[4] - 256 ELSE b[4])

\* f"{v}" for v = struct.unpack('<I', b)[0], as text.  The value is kept as
\* q * 10^4 + r so that no intermediate number leaves 32 bits:
\* v = hi * 65536 + lo = (hi * 6) * 10^4 + (hi * 5536 + lo).
QuotRemStr(q, r) ==
    IF q = 0 THEN DecStr(r) ELSE DecStr(q) \o zfill(DecStr(r), 4)

HiLoStr(hi, lo) ==
    QuotRemStr(hi * 6 + ((hi * 5536 + lo) \div 10000), (hi * 5536 + lo) % 10000)

UnsignedStr(b) == HiLoStr(b[3] + 256 * b[4], b[1] + 256 * b[2])

\* The date of day z, counted from 0000-03-01 (proleptic Gregorian), as
\* datetime arithmetic gives it: yoe is the year of the 400-year era, doy
\* the day of the year starting in March, mp the month starting in March.
CivilText(y, m, d) ==
    zfill(DecStr(y), 4) \o <<45>> \o zfill(DecStr(m), 2) \o <<45>> \o zfill(DecStr(d), 2)

CivilOfMonth(y, doy, mp) ==
    CivilText(IF mp >= 10 THEN y + 1 ELSE y,
              IF mp < 10 THEN mp + 3 ELSE mp - 9,
              doy - ((153 * mp + 2) \div 5) + 1)

CivilOfDay(y, doy) == CivilOfMonth(y, doy, (5 * doy + 2) \div 153)

CivilOfYear(era, doe, yoe) ==
    CivilOfDay(yoe + era * 400, doe - (365 * yoe + (yoe \div 4) - (yoe \div 100)))

CivilOfEra(era, doe) ==
    CivilOfYear(era, doe,
                (doe - (doe \div 1460) + (doe \div 36524) - (doe \div 146096)) \div 365)

CivilFromDays(z) == CivilOfEra(z \div 146097, z % 146097)

ClockText(sod) ==
    zfill(DecStr(sod \div 3600), 2) \o zfill(DecStr((sod % 3600) \div 60), 2)
        \o zfill(DecStr(sod % 60), 2)

\* (self.dte_nse + timedelta(seconds=s)).strftime("%Y-%m-%d %H%M%S"), with
\* dte_nse = datetime(1980, 1, 1), which is day 723120 from 0000-03-01.
FormatTime(s) ==
    CivilFromDays((s \div 86400) + 723120) \o <<32>> \o ClockText(s % 86400)

\* The 16 fields of lines 649..714 in the order of the code: the key written,
\* the offset added to data_index, and the struct format.
Fields ==
    << [key |-> 1,   off |-> 0,  fmt |-> "I"],
       [key |-> 7,   off |-> 4,  fmt |-> "I"],
       [key |-> 74,  off |-> 8,  fmt |-> "i"],
       [key |-> 73,  off |-> 12, fmt |-> "i"],
       [key |-> 8,   off |-> 16, fmt |-> "I"],
       [key |-> 2,   off |-> 20, fmt |-> "I"],
       [key |-> 3,   off |-> 24, fmt |-> "I"],
       [key |-> 5,   off |-> 28, fmt |-> "I"],
       [key |-> 6,   off |-> 32, fmt |-> "I"],
       [key |-> 75,  off |-> 36, fmt |-> "I"],
       [key |-> 77,  off |-> 40, fmt |-> "I"],
       [key |-> 78,  off |-> 44, fmt |-> "I"],
       [key |-> 76,  off |-> 48, fmt |-> "I"],
       [key |-> 399, off |-> 52, fmt |-> "I"],
       [key |-> 250, off |-> 56, fmt |-> "I"],
       [key |-> 88,  off |-> 60, fmt |-> "I"] >>

\* The value of one field as the text appended to str_new_msg.
FieldValue(fmt, b) == IF fmt = "i" THEN FormatTime(UnpackSigned(b)) ELSE UnsignedStr(b)

\* f"{key}={value}|"
FieldText(f, b) == DecStr(f.key) \o <<61>> \o FieldValue(f.fmt, b) \o <<124>>

\* The statements of lines 649..714 from field number n on; b is the slice
\* data_bytes[data_index + off : data_index + off + 4] of that field, and
\* raised = TRUE is the struct.error of unpack on a slice shorter than 4.
RECURSIVE DecodeFields(_, _, _, _)
RECURSIVE DecodeField(_, _, _, _, _)
DecodeField(data_bytes, data_index, n, str_new_msg, b) ==
    IF Len(b) < 4 THEN [raised |-> TRUE, text |-> <<>>]
    ELSE DecodeFields(data_bytes, data_index, n + 1,
                      str_new_msg \o FieldText(Fields[n], b))
DecodeFields(data_bytes, data_index, n, str_new_msg) ==
    IF n > Len(Fields) THEN [raised |-> FALSE, text |-> str_new_msg]
    ELSE DecodeField(data_bytes, data_index, n, str_new_msg,
                     Slice(data_bytes, data_index + Fields[n].off,
                           data_index + Fields[n].off + 4))

\* Lines 643..716: idx is str_msg.index("|50="), or -1 when the marker is
\* not in str_msg.  data_index is counted in str_msg and used in data_bytes.
DecodeAt(data_bytes, str_msg, idx) ==
    IF idx < 0 THEN [raised |-> FALSE, text |-> str_msg]
    ELSE DecodeFields(data_bytes, idx + Len(MARKER), 1, SubSeq(str_msg, 1, idx + 1))

DecodeText(data_bytes, str_msg) ==
    DecodeAt(data_bytes, str_msg, Index(str_msg, MARKER))

\* Lines 640..716 for one element of arr_data: the str handed to on_message,
\* or raised = TRUE.
DecodeMessage(data_bytes) == DecodeText(data_bytes, Utf8Ignore(data_bytes))

(***************************************************************************)
(* The inbound streams of the model.  A stream is built from items, and    *)
(* the items it was built from are kept beside its bytes, so that what the *)
(* program makes of the bytes can be compared with what was put in.        *)
(***************************************************************************)

\* One inner sub-message: flag byte, 5 ASCII digits of the length, payload.
InnerMessage(flag, m) == <<flag>> \o zfill(DecStr(Len(m)), MESSAGE_LENGTH_LENGTH) \o m

RECURSIVE InnerMessages(_)
InnerMessages(subs) ==
    IF subs = <<>> THEN <<>>
    ELSE InnerMessage(TAG_COMPRESSED, Head(subs)) \o InnerMessages(Tail(subs))

\* One outer frame around an already compressed payload.
OuterFrame(tag, payload) ==
    <<tag>> \o zfill(DecStr(Len(payload)), PACKET_HEADER_SIZE) \o payload

\* kind "frame": a well-formed outer frame carrying the sub-messages subs.
Frame(tag, subs) ==
    [kind |-> "frame", tag |-> tag, subs |-> subs, raw |-> <<>>]
\* kind "bad": a well-framed outer frame whose payload raw is no compressed stream.
BadFrame(tag, raw) ==
    [kind |-> "bad", tag |-> tag, subs |-> <<>>, raw |-> raw]
\* kind "garbage": stray bytes between frames.
Garbage(raw) ==
    [kind |-> "garbage", tag |-> 0, subs |-> <<>>, raw |-> raw]
\* kind "wrapped": the frame fragment_data builds for the outbound text raw.
Wrapped(raw) ==
    [kind |-> "wrapped", tag |-> TAG_COMPRESSED, subs |-> <<>>, raw |-> raw]
\* kind "tailed": an outer frame whose decompressed payload is the
\* sub-messages subs followed by the bytes raw.
Tailed(tag, subs, raw) ==
    [kind |-> "tailed", tag |-> tag, subs |-> subs, raw |-> raw]

ItemBytes(it) ==
    CASE it.kind = "frame" -> OuterFrame(it.tag, compress(InnerMessages(it.subs)))
      [] it.kind = "bad" -> OuterFrame(it.tag, it.raw)
      [] it.kind = "garbage" -> it.raw
      [] it.kind = "wrapped" -> fragment_data(it.raw).bytes
      [] it.kind = "tailed" ->
             OuterFrame(it.tag, compress(InnerMessages(it.subs) \o it.raw))

RECURSIVE StreamBytes(_)
StreamBytes(its) ==
    IF its = <<>> THEN <<>> ELSE ItemBytes(Head(its)) \o StreamBytes(Tail(its))

\* Sub-message payloads: "A", "B", "CD".
MsgA == <<65>>
MsgB == <<66>>
MsgCD == <<67, 68>>
\* Outbound texts: "63=F" (how every request of the client starts) and
\* "x00001Z" (a text that happens to start like an inner header).
TextLogin == <<54, 51, 61, 70>>
TextFramed == <<120, 48, 48, 48, 48, 49, 90>>

HandlerItems ==
    { Frame(TAG_COMPRESSED, <<MsgA>>),
      Frame(TAG_OTHER, <<MsgB, MsgCD>>),
      BadFrame(TAG_COMPRESSED, <<1, 2, 3>>),
      Garbage(<<0>>),
      Garbage(<<TAG_COMPRESSED, 128>>),
      Garbage(<<TAG_OTHER, 48, 48, 48, 48>>),
      Wrapped(TextLogin),
      Wrapped(TextFramed) }

SeqsUpTo(S, n) == UNION { [1..k -> S] : k \in 0..n }

\* The 4 little-endian bytes of n.
U32(n) == <<n % 256, (n \div 256) % 256, (n \div 65536) % 256, n \div 16777216>>

\* A 64-byte market record of 16 fields: segment 1, token 22, both times
\* within 1980-01-02, last traded price 15075, decimal locator 2.
RecTick ==
    Concat([i \in 1..16 |->
        U32(<<1, 22, 86400, 86399, 15075, 6, 7, 8, 9, 10, 11, 12, 13, 2, 15, 16>>[i])])

\* A 64-byte market record whose bytes are all different and all above 127:
\* every unsigned field is above 2^31 and both times are before 1980.
RecWide == [j \in 1..64 |-> 256 - j]

\* A sub-message with a market record: prefix, marker, record bytes.
Market(prefix, rec) == prefix \o MARKER \o rec

SessionItems ==
    { Frame(TAG_COMPRESSED, <<MsgA, MsgB>>),
      Frame(TAG_COMPRESSED, <<Market(<<80>>, RecTick)>>),
      Frame(TAG_OTHER, <<Market(<<>>, RecWide), MsgCD>>),
      Frame(TAG_COMPRESSED, <<MsgA, Market(<<81>>, SubSeq(RecTick, 1, 63)), MsgB>>),
      Frame(TAG_COMPRESSED, <<Market(<<81>>, <<>>)>>),
      BadFrame(TAG_COMPRESSED, <<1, 2, 3>>),
      Frame(TAG_COMPRESSED, <<Market(<<255>>, SubSeq(RecWide, 1, 63))>>),
      Frame(TAG_COMPRESSED, <<Market(<<195, 169>>, RecTick)>>) }

(***************************************************************************)
(* State.                                                                  *)
(***************************************************************************)
VARIABLES
    \* FragmentationHandler
    memory_stream,          \* the content of the BytesIO
    last_written_index,
    is_disposed,
    iterations,             \* what the loops of the last defragment call did
    header_length,          \* NoAttr until fragment_data assigns it
    header_char,            \* NoAttr until fragment_data assigns it
    \* the transport
    items,                  \* what the inbound stream was built from
    stream,                 \* the inbound bytes
    pos,                    \* how many of them have been delivered
    \* what the calls returned
    out,                    \* the lists defragment returned, concatenated
    last_ret,               \* what the last defragment call did
    seen,                   \* header_length as the defragment calls found it
    printed,                \* "Error decompressing data" lines printed
    \* ODINMarketFeedClient
    websocket,              \* "None" or "open"
    receive_task,           \* "None" or "running"
    on_message,             \* whether the application assigned the handler
    on_error,
    log,                    \* the callbacks made, in order
    caught,                 \* "Error processing response" lines printed
    disconnect_at,          \* where the disconnect() call stands
    on_open,                \* whether the application assigned the handler
    on_close,
    connect_at,             \* where the connect() call stands
    earlier,                \* the connections of the connect() calls before
    client_disposed,        \* ODINMarketFeedClient.is_disposed
    compression_status,     \* "ON" or "OFF"
    sent,                   \* what send_message gave to websocket.send
    \* the outbound path
    compressed_length,      \* len(compressed) of the fragment_data call
    frame                   \* what that call returned

vars == <<memory_stream, last_written_index, is_disposed, iterations, header_length,
          header_char, items, stream, pos, out, last_ret, seen, printed,
          websocket, receive_task, on_message, on_error, log, caught,
          disconnect_at, on_open, on_close, connect_at, earlier,
          client_disposed, compression_status, sent, compressed_length, frame>>

api == <<on_open, on_close, connect_at, earlier, client_disposed,
         compression_status, sent>>

outbound == <<compressed_length, frame>>

client == <<websocket, receive_task, on_message, on_error, log, caught,
            disconnect_at>>

handler == <<memory_stream, last_written_index, is_disposed, header_length,
             header_char>>

NoCall == [kind |-> "none", packet_list |-> <<>>]

\* FragmentationHandler.__init__
NoIterations == [outer |-> <<>>, inner |-> <<>>]

HandlerInit ==
    /\ iterations = NoIterations
    /\ memory_stream = <<>>
    /\ last_written_index = -1
    /\ is_disposed = FALSE
    /\ header_length = NoAttr
    /\ header_char = NoAttr

\* No fragment_data call is followed by its length.
NoFrame == [kind |-> "none", len |-> 0, header |-> <<>>, payload_kept |-> FALSE]

OutboundInit ==
    /\ compressed_length = 0
    /\ frame = NoFrame

\* ODINMarketFeedClient.__init__, but for the two handlers.
ClientInit ==
    /\ websocket = "None"
    /\ receive_task = "None"
    /\ log = <<>>
    /\ caught = 0
    /\ disconnect_at = "idle"
    /\ connect_at = "idle"
    /\ earlier = <<>>
    /\ client_disposed = FALSE
    /\ compression_status = "ON"
    /\ sent = <<>>

\* A FragmentationHandler used on its own: no client calls anything.
Init ==
    /\ HandlerInit
    /\ ClientInit
    /\ OutboundInit
    /\ on_message = FALSE
    /\ on_error = FALSE
    /\ on_open = FALSE
    /\ on_close = FALSE
    /\ items \in SeqsUpTo(HandlerItems, MaxItems)
    /\ stream = StreamBytes(items)
    /\ pos = 0
    /\ out = <<>>
    /\ last_ret = NoCall
    /\ seen = "none"
    /\ printed = 0

\* The sizes of the next chunk: up to MaxChunk bytes, or all that is left.
ChunkSizes == { k \in 1..(Len(stream) - pos) : k <= MaxChunk \/ k = Len(stream) - pos }

Seen(hl) ==
    LET now == IF hl = NoAttr THEN "unset" ELSE "set"
    IN  IF seen \in {"none", now} THEN now ELSE "mixed"

\* handler.fragment_data(text) for an outbound text.
Fragmented(f) ==
    /\ header_length' = f.hl
    /\ header_char' = f.hc
    /\ UNCHANGED <<memory_stream, last_written_index, is_disposed, items,
                   stream, pos, out, last_ret, seen, printed, iterations>>
    /\ UNCHANGED <<client, outbound, api>>

FragmentData(text) == Fragmented(fragment_data(text))

\* handler.defragment(chunk) for the next k bytes of the stream; r is what
\* the call did.
Defragmented(k, r) ==
    /\ memory_stream' = r.ms
    /\ last_written_index' = r.lwi
    /\ header_char' = r.hc
    /\ pos' = pos + k
    /\ out' = out \o r.packet_list
    /\ last_ret' = [kind |-> IF r.raised THEN "raise" ELSE "list",
                    packet_list |-> r.packet_list]
    /\ seen' = Seen(header_length)
    /\ printed' = printed + r.printed
    /\ iterations' = [outer |-> r.outer, inner |-> r.inner]
    /\ UNCHANGED <<is_disposed, header_length, items, stream>>
    /\ UNCHANGED <<client, outbound, api>>

Defragment(k) ==
    Defragmented(k, defragment(memory_stream, last_written_index, header_length,
                               header_char, is_disposed,
                               SubSeq(stream, pos + 1, pos + k)))

Next ==
    \/ \E text \in {TextLogin, TextFramed} : FragmentData(text)
    \/ \E k \in ChunkSizes : Defragment(k)

Spec == Init /\ [][Next]_vars

(***************************************************************************)
(* One connection of an ODINMarketFeedClient: connect, then the receive    *)
(* task handing the chunks of the inbound stream to _response_received.    *)
(***************************************************************************)

\* One call of a handler: text is the argument of on_message, err the
\* exception on_error is called for, raw the element of arr_data concerned.
Message(text, raw) == [cb |-> "on_message", text |-> text, raw |-> raw, err |-> "none"]
Error(err, raw) == [cb |-> "on_error", text |-> <<>>, raw |-> raw, err |-> err]

\* The for loop of lines 638..719 from element i on (1-based), calls being
\* the handler calls made so far; d is the decoding of element i.  An
\* exception leaves the loop for the except clause of line 729.
RECURSIVE DeliverLoop(_, _, _)
RECURSIVE DeliverOne(_, _, _, _)
DeliverNewestFirst(arr_data, i, calls, d) ==
    IF d.raised
    THEN [calls |-> calls \o <<Error("struct.error", arr_data[i])>>, caught |-> 1]
    ELSE DeliverLoop(arr_data, i + 1, <<Message(d.text, arr_data[i])>> \o calls)
DeliverOne(arr_data, i, calls, d) ==
    IF d.raised
    THEN [calls |-> calls \o <<Error("struct.error", arr_data[i])>>, caught |-> 1]
    ELSE DeliverLoop(arr_data, i + 1, calls \o <<Message(d.text, arr_data[i])>>)
DeliverLoop(arr_data, i, calls) ==
    IF i > Len(arr_data) THEN [calls |-> calls, caught |-> 0]
    ELSE DeliverOne(arr_data, i, calls, DecodeMessage(arr_data[i]))

\* _response_received once defragment did r.
Processed(r) ==
    IF r.raised THEN [calls |-> <<Error("UnicodeDecodeError", <<>>)>>, caught |-> 1]
    ELSE DeliverLoop(r.packet_list, 1, <<>>)

\* "if self.on_message:", "if self.on_error:"
IsHeard(c) == IF c.cb = "on_message" THEN on_message ELSE on_error
Heard(calls) == SelectSeq(calls, IsHeard)

\* The application assigns its handlers, or not, before it connects.
SessionInit ==
    /\ HandlerInit
    /\ ClientInit
    /\ OutboundInit
    /\ on_message \in BOOLEAN
    /\ on_error \in BOOLEAN
    /\ on_open = FALSE
    /\ on_close = FALSE
    /\ items \in SeqsUpTo(SessionItems, MaxSessionItems)
    /\ stream = StreamBytes(items)
    /\ pos = 0
    /\ out = <<>>
    /\ last_ret = NoCall
    /\ seen = "none"
    /\ printed = 0

\* What send_message hands to websocket.send for the message text, with the
\* compression setting in force at that time.
Packet(text, bytes) ==
    [status |-> compression_status, text |-> text, bytes |-> bytes]

\* connect(host, port, user_id, use_ssl, api_key) with arguments that pass
\* the validation, on a server that accepts the connection.  encodes tells
\* whether login_msg.encode('ascii') of send_message succeeds; when it does
\* not, fragment_data is not reached and the except clause of line 279
\* calls on_error and re-raises, the receive task of line 258 being left as
\* it is.  One connect is made per run.
Connected(encodes, f) ==
    /\ websocket' = "open"
    /\ receive_task' = "running"
    /\ header_length' = IF encodes THEN f.hl ELSE header_length
    /\ header_char' = IF encodes THEN f.hc ELSE header_char
    /\ log' = IF encodes THEN log ELSE log \o Heard(<<Error("UnicodeEncodeError", <<>>)>>)
    /\ sent' = IF encodes THEN Append(sent, Packet(TextLogin, f.bytes)) ELSE sent
    /\ connect_at' = IF encodes THEN "returned" ELSE "raised"
    /\ UNCHANGED <<memory_stream, last_written_index, is_disposed, items,
                   stream, pos, out, last_ret, seen, printed, iterations, on_message,
                   on_error, caught, disconnect_at, outbound, on_open,
                   on_close, earlier, client_disposed, compression_status>>

Connect(encodes) ==
    /\ receive_task = "None"
    /\ Connected(encodes, fragment_data(TextLogin))

\* The sizes of the next chunk of a session: all that is left of the
\* stream, or half of it.
SessionChunkSizes ==
    { k \in 1..(Len(stream) - pos) :
        k = Len(stream) - pos \/ k = (Len(stream) - pos + 1) \div 2 }

\* _receive_messages hands the next k bytes, one binary message of the
\* transport, to _response_received; r is what defragment did with them and
\* p what the rest of _response_received did.
Received(k, r, p) ==
    /\ memory_stream' = r.ms
    /\ last_written_index' = r.lwi
    /\ header_char' = r.hc
    /\ pos' = pos + k
    /\ out' = out \o r.packet_list
    /\ last_ret' = [kind |-> IF r.raised THEN "raise" ELSE "list",
                    packet_list |-> r.packet_list]
    /\ seen' = Seen(header_length)
    /\ printed' = printed + r.printed
    /\ iterations' = [outer |-> r.outer, inner |-> r.inner]
    /\ log' = log \o Heard(p.calls)
    /\ caught' = caught + p.caught
    /\ UNCHANGED <<is_disposed, header_length, items, stream, websocket,
                   receive_task, on_message, on_error, disconnect_at,
                   outbound, api>>

ResponseReceived(k, r) == Received(k, r, Processed(r))

Receive(k) ==
    /\ receive_task = "running"
    /\ ResponseReceived(k, defragment(memory_stream, last_written_index,
                                      header_length, header_char, is_disposed,
                                      SubSeq(stream, pos + 1, pos + k)))

SessionNext ==
    \/ \E encodes \in BOOLEAN : Connect(encodes)
    \/ \E k \in SessionChunkSizes : Receive(k)

SessionSpec == SessionInit /\ [][SessionNext]_vars

(***************************************************************************)
(* connect() step by step.  It is a coroutine that creates the receive     *)
(* task (line 258) and then waits twice, for websocket.send inside          *)
(* send_message (line 274) and for on_open (line 277); the receive task     *)
(* runs while it waits.                                                    *)
(***************************************************************************)

\* The frames a server sends in the runs that follow a connection through
\* its steps.
LifecycleItems == {Frame(5, <<MsgA>>), Frame(2, <<MsgB, MsgCD>>)}

ConnectInit ==
    /\ HandlerInit
    /\ ClientInit
    /\ OutboundInit
    /\ on_message = TRUE
    /\ on_error \in BOOLEAN
    /\ on_open \in BOOLEAN
    /\ on_close = FALSE
    /\ items \in SeqsUpTo(LifecycleItems, MaxLifecycleItems)
    /\ stream = StreamBytes(items)
    /\ pos = 0
    /\ out = <<>>
    /\ last_ret = NoCall
    /\ seen = "none"
    /\ printed = 0

\* The call of on_open, as the log holds it.
Opened == [cb |-> "on_open", text |-> <<>>, raw |-> <<>>, err |-> "none"]

\* What a step of connect() writes; calls are the handler calls it makes.
ConnectStep(ws, task, f, packets, calls, at) ==
    /\ websocket' = ws
    /\ receive_task' = task
    /\ header_length' = f.hl
    /\ header_char' = f.hc
    /\ sent' = sent \o packets
    /\ log' = log \o calls
    /\ connect_at' = at
    /\ UNCHANGED <<memory_stream, last_written_index, is_disposed, iterations,
                   items, stream, pos, out, last_ret, seen, printed, on_message,
                   on_error, caught, disconnect_at, outbound, on_open,
                   on_close, earlier, client_disposed, compression_status>>

\* The fields of the handler as they are.
Untouched == [hl |-> header_length, hc |-> header_char]

\* lines 223..246: an argument fails the validation, which is outside the
\* try: the exception leaves connect() and nothing else is done.
ConnectInvalid ==
    /\ connect_at = "idle"
    /\ ConnectStep(websocket, receive_task, Untouched, <<>>, <<>>, "raised")

\* line 254: websockets.connect raises; lines 279..283 report and re-raise.
ConnectRefused ==
    /\ connect_at = "idle"
    /\ ConnectStep(websocket, receive_task, Untouched, <<>>,
                   Heard(<<Error("ConnectionRefusedError", <<>>)>>), "raised")

\* lines 254..274 up to the first wait: the connection is open, the receive
\* task is created, and send_message encodes and frames the login;
\* login_msg.encode('ascii') raises when user_id or api_key is not ASCII.
ConnectOpened(encodes, f) ==
    IF encodes
    THEN ConnectStep("open", "running", f, <<Packet(TextLogin, f.bytes)>>, <<>>,
                     "sending")
    ELSE ConnectStep("open", "running", Untouched, <<>>,
                     Heard(<<Error("UnicodeEncodeError", <<>>)>>), "raised")

ConnectOpen(encodes) ==
    /\ connect_at = "idle"
    /\ ConnectOpened(encodes, fragment_data(TextLogin))

\* lines 274..277: websocket.send returns and on_open, if set, is called; or
\* websocket.send raises.
LoginSent(ok) ==
    /\ connect_at = "sending"
    /\ ConnectStep(websocket, receive_task, Untouched, <<>>,
                   IF ok THEN (IF on_open THEN <<Opened>> ELSE <<>>)
                   ELSE Heard(<<Error("ConnectionClosed", <<>>)>>),
                   IF ok THEN (IF on_open THEN "opening" ELSE "returned")
                   ELSE "raised")

\* line 277 on: on_open returns, or raises.
OpenDone(ok) ==
    /\ connect_at = "opening"
    /\ ConnectStep(websocket, receive_task, Untouched, <<>>,
                   IF ok THEN <<>> ELSE Heard(<<Error("on_open", <<>>)>>),
                   IF ok THEN "returned" ELSE "raised")

ConnectNext ==
    \/ ConnectInvalid
    \/ ConnectRefused
    \/ \E encodes \in BOOLEAN : ConnectOpen(encodes)
    \/ \E ok \in BOOLEAN : LoginSent(ok)
    \/ \E ok \in BOOLEAN : OpenDone(ok)
    \/ \E k \in SessionChunkSizes : Receive(k)

ConnectSpec == ConnectInit /\ [][ConnectNext]_vars

(***************************************************************************)
(* The requests of a client: set_compression and send_message.  Every      *)
(* subscribe_ and unsubscribe_ method builds a text and ends in             *)
(* send_message.                                                           *)
(***************************************************************************)

SendInit ==
    /\ HandlerInit
    /\ ClientInit
    /\ OutboundInit
    /\ on_message = FALSE
    /\ on_error \in BOOLEAN
    /\ on_open = FALSE
    /\ on_close = FALSE
    /\ items = <<>>
    /\ stream = <<>>
    /\ pos = 0
    /\ out = <<>>
    /\ last_ret = NoCall
    /\ seen = "none"
    /\ printed = 0

\* set_compression(enabled)
SetCompression(enabled) ==
    /\ compression_status' = IF enabled THEN "ON" ELSE "OFF"
    /\ UNCHANGED <<handler, iterations, items, stream, pos, out, last_ret, seen,
                   printed, client, outbound, on_open, on_close, connect_at,
                   earlier, client_disposed, sent>>

\* lines 616..618 of send_message: f is what fragment_data did with the
\* encoded message.
MessageSent(text, f) ==
    /\ header_length' = f.hl
    /\ header_char' = f.hc
    /\ sent' = Append(sent, Packet(text, f.bytes))
    /\ UNCHANGED <<memory_stream, last_written_index, is_disposed, iterations,
                   items, stream, pos, out, last_ret, seen, printed, client,
                   outbound, on_open, on_close, connect_at, earlier,
                   client_disposed, compression_status>>

\* send_message(message) on a client that has a websocket; without one it
\* raises ConnectionError and does nothing.
SendMessage(text) ==
    /\ websocket # "None"
    /\ Len(sent) <= MaxSends
    /\ MessageSent(text, fragment_data(text))

SendNext ==
    \/ \E encodes \in BOOLEAN : Connect(encodes)
    \/ \E enabled \in BOOLEAN : SetCompression(enabled)
    \/ \E text \in {TextLogin, TextFramed} : SendMessage(text)

SendSpec == SendInit /\ [][SendNext]_vars

(***************************************************************************)
(* A session that is disconnected.  disconnect() is a coroutine: it waits  *)
(* for websocket.close() (line 292), and then cancels the receive task and *)
(* waits for it (lines 295..300).  The receive task runs whenever the      *)
(* caller waits; its handlers are synchronous, so a chunk is handled whole *)
(* or not at all.                                                          *)
(***************************************************************************)

LifecycleInit ==
    /\ HandlerInit
    /\ ClientInit
    /\ OutboundInit
    /\ on_message = TRUE
    /\ on_error \in BOOLEAN
    /\ on_open = FALSE
    /\ on_close \in BOOLEAN
    /\ items \in SeqsUpTo(LifecycleItems, MaxLifecycleItems)
    /\ stream = StreamBytes(items)
    /\ pos = 0
    /\ out = <<>>
    /\ last_ret = NoCall
    /\ seen = "none"
    /\ printed = 0

\* What a step of disconnect() or of the event loop leaves alone.
LifecycleStep(ws, task, at) ==
    /\ websocket' = ws
    /\ receive_task' = task
    /\ disconnect_at' = at
    /\ UNCHANGED <<handler, items, stream, pos, out, last_ret, seen, printed, iterations,
                   on_message, on_error, log, caught, outbound, api>>

\* disconnect() is called: with no websocket and no task it returns at
\* once and has done nothing, with a websocket it waits for close().
DisconnectCall ==
    /\ disconnect_at = "idle"
    /\ LifecycleStep(websocket, receive_task,
                     IF websocket = "None" THEN "idle" ELSE "closing")

\* The closing handshake ends while disconnect() waits at line 293.
CloseCompletes ==
    /\ disconnect_at = "closing"
    /\ websocket = "open"
    /\ LifecycleStep("closed", receive_task, disconnect_at)

\* The server closes the connection with a closing handshake.
ServerCloses ==
    /\ websocket = "open"
    /\ LifecycleStep("closed", receive_task, disconnect_at)

\* The connection breaks: the async for of _receive_messages is to raise
\* ConnectionClosedError when the receive task runs next.
TransportFails ==
    /\ websocket = "open"
    /\ LifecycleStep("closed",
                     IF receive_task = "running" THEN "failing" ELSE receive_task,
                     disconnect_at)

\* lines 629..632: the receive task ends in "except Exception".
ReceiveLoopFails ==
    /\ receive_task = "failing"
    /\ receive_task' = "done"
    /\ log' = log \o Heard(<<Error("ConnectionClosedError", <<>>)>>)
    /\ UNCHANGED <<handler, iterations, items, stream, pos, out, last_ret, seen,
                   printed, websocket, on_message, on_error, caught,
                   disconnect_at, outbound, api>>

\* The async for of _receive_messages ends on the closed connection, the
\* messages that were queued having been handed out.
ReceiveLoopEnds ==
    /\ websocket = "closed"
    /\ receive_task = "running"
    /\ pos = Len(stream)
    /\ LifecycleStep(websocket, "done", disconnect_at)

\* A slip in disconnect: it returns after close() without cancelling the
\* receive task or waiting for it.
DisconnectNoCancel ==
    /\ disconnect_at = "closing"
    /\ websocket = "closed"
    /\ LifecycleStep(websocket, receive_task, "returned")

\* Lines 295..297: disconnect() resumes after close(), cancels the receive
\* task (no effect on one that is done) and waits for it.
DisconnectCancel ==
    /\ disconnect_at = "closing"
    /\ websocket = "closed"
    /\ LifecycleStep(websocket,
                     IF receive_task \in {"running", "failing"}
                     THEN "cancelling" ELSE receive_task,
                     "awaiting")

\* The receive task is resumed with CancelledError, which line 627 catches.
ReceiveCancelled ==
    /\ receive_task = "cancelling"
    /\ LifecycleStep(websocket, "done", disconnect_at)

\* Lines 298..300: the task is done, disconnect() returns.
DisconnectReturn ==
    /\ disconnect_at = "awaiting"
    /\ receive_task = "done"
    /\ LifecycleStep(websocket, receive_task, "returned")

\* The steps the event loop takes by itself: a coroutine that can go on
\* does go on.
LifecycleLoop ==
    \/ \E k \in ChunkSizes : Receive(k)
    \/ CloseCompletes
    \/ ReceiveLoopEnds
    \/ ReceiveLoopFails
    \/ DisconnectCancel
    \/ ReceiveCancelled
    \/ DisconnectReturn

LifecycleNext ==
    \/ \E encodes \in BOOLEAN : Connect(encodes)
    \/ DisconnectCall
    \/ ServerCloses
    \/ TransportFails
    \/ LifecycleLoop

LifecycleSpec == LifecycleInit /\ [][LifecycleNext]_vars

\* The same with an event loop that runs what is ready to run.
LifecycleFairSpec == LifecycleSpec /\ WF_vars(LifecycleLoop)

(***************************************************************************)
(* One client that connects more than once.  frag_handler is created in    *)
(* __init__ (line 204) and nowhere else, so every connection of a client   *)
(* feeds the same FragmentationHandler; connect() assigns self.websocket   *)
(* and self._receive_task (lines 254 and 258) whatever they hold, and      *)
(* disconnect() and dispose() reach only the task that was assigned last.  *)
(***************************************************************************)

\* What a server sends on a connection of these runs.
ConnectionItems == SeqsUpTo(LifecycleItems, 1)

ConnectionsInit ==
    /\ HandlerInit
    /\ ClientInit
    /\ OutboundInit
    /\ on_message = TRUE
    /\ on_error = FALSE
    /\ on_open = FALSE
    /\ on_close = FALSE
    /\ items \in ConnectionItems
    /\ stream = StreamBytes(items)
    /\ pos = 0
    /\ out = <<>>
    /\ last_ret = NoCall
    /\ seen = "none"
    /\ printed = 0

\* connect() on a client that has connected before, on a server that accepts
\* the connection and is to send its; f is what fragment_data did with the
\* login.  Nothing is done to the task, the websocket or the buffer of the
\* connection before, which earlier keeps: its task, what its transport
\* holds, and whether a disconnect() had returned.
Reconnected(encodes, its, f) ==
    /\ earlier' = Append(earlier, [task |-> receive_task, stream |-> stream,
                                   pos |-> pos, left |-> disconnect_at])
    /\ websocket' = "open"
    /\ receive_task' = "running"
    /\ items' = its
    /\ stream' = StreamBytes(its)
    /\ pos' = 0
    /\ disconnect_at' = "idle"
    /\ header_length' = IF encodes THEN f.hl ELSE header_length
    /\ header_char' = IF encodes THEN f.hc ELSE header_char
    /\ log' = IF encodes THEN log ELSE log \o Heard(<<Error("UnicodeEncodeError", <<>>)>>)
    /\ sent' = IF encodes THEN Append(sent, Packet(TextLogin, f.bytes)) ELSE sent
    /\ connect_at' = IF encodes THEN "returned" ELSE "raised"
    /\ UNCHANGED <<memory_stream, last_written_index, is_disposed, out,
                   last_ret, seen, printed, iterations, on_message, on_error,
                   caught, outbound, on_open, on_close, client_disposed,
                   compression_status>>

Reconnect(encodes, its) ==
    /\ receive_task # "None"
    /\ disconnect_at \in {"idle", "returned"}
    /\ Len(earlier) + 1 < MaxConnections
    /\ Reconnected(encodes, its, fragment_data(TextLogin))

\* The sizes of the next chunk of a connection whose transport holds s and
\* has handed out p bytes: a server message comes whole, or in two halves.
ConnectionChunkSizes(s, p) ==
    { k \in 1..(Len(s) - p) :
        k = Len(s) - p \/ (p = 0 /\ k = (Len(s) + 1) \div 2) }

\* The receive task of connection i, left behind and running, hands the
\* next k bytes of its transport to _response_received: r is what
\* defragment did with them.
ResponseReceivedEarlier(i, k, r) ==
    /\ memory_stream' = r.ms
    /\ last_written_index' = r.lwi
    /\ header_char' = r.hc
    /\ earlier' = [earlier EXCEPT ![i].pos = @ + k]
    /\ out' = out \o r.packet_list
    /\ last_ret' = [kind |-> IF r.raised THEN "raise" ELSE "list",
                    packet_list |-> r.packet_list]
    /\ seen' = Seen(header_length)
    /\ printed' = printed + r.printed
    /\ iterations' = [outer |-> r.outer, inner |-> r.inner]
    /\ log' = log \o Heard(Processed(r).calls)
    /\ caught' = caught + Processed(r).caught
    /\ UNCHANGED <<is_disposed, header_length, items, stream, pos, websocket,
                   receive_task, on_message, on_error, disconnect_at,
                   outbound, on_open, on_close, connect_at, client_disposed,
                   compression_status, sent>>

ReceiveEarlier(i, k) ==
    /\ earlier[i].task = "running"
    /\ ResponseReceivedEarlier(
           i, k,
           defragment(memory_stream, last_written_index, header_length,
                      header_char, is_disposed,
                      SubSeq(earlier[i].stream, earlier[i].pos + 1,
                             earlier[i].pos + k)))

\* dispose(), lines 766..771: the first call cancels the receive task that
\* was assigned last, later calls do nothing.
Dispose ==
    /\ disconnect_at \in {"idle", "returned"}
    /\ client_disposed' = TRUE
    /\ receive_task' = IF ~client_disposed /\ receive_task \in {"running", "failing"}
                       THEN "cancelling" ELSE receive_task
    /\ UNCHANGED <<handler, iterations, items, stream, pos, out, last_ret, seen,
                   printed, websocket, on_message, on_error, log, caught,
                   disconnect_at, outbound, on_open, on_close, connect_at,
                   earlier, compression_status, sent>>

ConnectionsNext ==
    \/ \E encodes \in BOOLEAN : Connect(encodes)
    \/ \E encodes \in BOOLEAN, its \in ConnectionItems : Reconnect(encodes, its)
    \/ \E k \in ConnectionChunkSizes(stream, pos) : Receive(k)
    \/ \E i \in 1..Len(earlier) :
          \E k \in ConnectionChunkSizes(earlier[i].stream, earlier[i].pos) :
              ReceiveEarlier(i, k)
    \/ Dispose
    \/ DisconnectCall
    \/ CloseCompletes
    \/ ReceiveLoopEnds
    \/ DisconnectCancel
    \/ ReceiveCancelled
    \/ DisconnectReturn

ConnectionsSpec == ConnectionsInit /\ [][ConnectionsNext]_vars

(***************************************************************************)
(* The inner split at the end of a payload: one frame whose decompressed   *)
(* payload ends in bytes that are no complete sub-message, received by a   *)
(* FragmentationHandler used on its own.                                   *)
(***************************************************************************)

\* The bytes a short tail is made of: a digit, a space, a non-ASCII byte.
TailBytes == {49, 32, 128}

\* The tails of 1 .. HEADER_LENGTH - 1 bytes.
ShortTails == UNION { [1..n -> TailBytes] : n \in 1..(HEADER_LENGTH - 1) }

\* Tails with a whole inner header that declares 5, 1 and 99999 bytes, with
\* 2, 0 and 1 bytes after it; and one that declares the 2 bytes it has.
LongTails ==
    { <<5, 48, 48, 48, 48, 53, 65, 66>>,
      <<2, 48, 48, 48, 48, 49>>,
      <<5, 57, 57, 57, 57, 57, 65>>,
      <<5, 48, 48, 48, 48, 50, 65, 66>> }

\* Tails that start with an inner header whose length is not positive or no
\* integer ("00000", "-0001", "xxxxx", "0000" and a non-ASCII byte), with
\* nothing, with stray bytes or with a whole sub-message "CD" after it.
MalformedTails ==
    { <<5, 48, 48, 48, 48, 48>>,
      <<5, 48, 48, 48, 48, 48, 65>>,
      <<5, 45, 48, 48, 48, 49, 65, 66>>,
      <<5, 120, 120, 120, 120, 120, 5, 48, 48, 48, 48, 50, 67, 68>>,
      <<2, 48, 48, 48, 48, 128, 5, 48, 48, 48, 48, 50, 67, 68>> }

InnerItems ==
    { Tailed(TAG_COMPRESSED, subs, raw) :
        subs \in {<<MsgA>>, <<MsgB, MsgCD>>}, raw \in ShortTails \cup LongTails }

\* Frames whose payload is cut short by a malformed inner header, the first
\* sub-message included.
MalformedItems ==
    { Tailed(TAG_COMPRESSED, subs, raw) :
        subs \in {<<>>, <<MsgA>>, <<MsgB, MsgCD>>}, raw \in MalformedTails }

InnerInit ==
    /\ HandlerInit
    /\ ClientInit
    /\ OutboundInit
    /\ on_message = FALSE
    /\ on_error = FALSE
    /\ on_open = FALSE
    /\ on_close = FALSE
    /\ items \in [1..1 -> InnerItems]
           \cup { <<m>> \o after :
                    m \in MalformedItems,
                    after \in {<<>>, <<Frame(TAG_OTHER, <<MsgCD>>)>>} }
    /\ stream = StreamBytes(items)
    /\ pos = 0
    /\ out = <<>>
    /\ last_ret = NoCall
    /\ seen = "none"
    /\ printed = 0

InnerNext ==
    \/ \E text \in {TextLogin, TextFramed} : FragmentData(text)
    \/ \E k \in SessionChunkSizes : Defragment(k)

InnerSpec == InnerInit /\ [][InnerNext]_vars

(***************************************************************************)
(* fragment_data at the ceiling of the 5-digit length.  What zlib returns  *)
(* is an input here: a stream of compressed_length bytes, chosen at the    *)
(* start; the lines of fragment_data after the call of compress act on it. *)
(***************************************************************************)

\* The largest length 5 ASCII digits can write.
LengthCeiling == 10 ^ MESSAGE_LENGTH_LENGTH - 1

Lengths ==
    (0..NearCeiling)
        \cup ((LengthCeiling - NearCeiling)..(LengthCeiling + NearCeiling + 1))

\* A compressed stream of n bytes.
ZStream(n) == [i \in 1..n |-> IF i = 1 THEN ZMAGIC ELSE i % 256]

FramingInit ==
    /\ HandlerInit
    /\ ClientInit
    /\ on_message = FALSE
    /\ on_error = FALSE
    /\ on_open = FALSE
    /\ on_close = FALSE
    /\ items = <<>>
    /\ stream = <<>>
    /\ pos = 0
    /\ out = <<>>
    /\ last_ret = NoCall
    /\ seen = "none"
    /\ printed = 0
    /\ compressed_length \in Lengths
    /\ frame = NoFrame

\* Lines 56..62 of fragment_data, compressed being what compress returned
\* and bytes_to_send what the function returns; no statement of them raises.
Sent(compressed, bytes_to_send) ==
    /\ frame' = [kind |-> "bytes",
                 len |-> Len(bytes_to_send),
                 header |-> Slice(bytes_to_send, 0, PACKET_HEADER_SIZE + 1),
                 payload_kept |->
                     Slice(bytes_to_send, PACKET_HEADER_SIZE + 1, Len(bytes_to_send))
                         = compressed]
    /\ header_length' = HEADER_LENGTH
    /\ header_char' = [i \in 1..MESSAGE_LENGTH_LENGTH |-> 0]
    /\ UNCHANGED <<memory_stream, last_written_index, is_disposed, items,
                   stream, pos, out, last_ret, seen, printed, iterations, client,
                   compressed_length, api>>

FragmentCompressed(compressed) == Sent(compressed, Framed(compressed))

FragmentLength ==
    /\ frame.kind = "none"
    /\ FragmentCompressed(ZStream(compressed_length))

FramingNext == FragmentLength

FramingSpec == FramingInit /\ [][FramingNext]_vars

(***************************************************************************)
(* What was put into the stream, read off the items it was built from.     *)
(***************************************************************************)
WellFormed(its) == \A i \in 1..Len(its) : its[i].kind \in {"frame", "wrapped"}

\* The sub-messages of the frames of its whose last byte is among the first
\* p bytes of the stream, in stream order; off is where its starts.
RECURSIVE SubsBy(_, _, _)
SubsBy(its, off, p) ==
    IF its = <<>> THEN <<>>
    ELSE (IF off + Len(ItemBytes(Head(its))) <= p THEN Head(its).subs ELSE <<>>)
         \o SubsBy(Tail(its), off + Len(ItemBytes(Head(its))), p)

AllSubs(its) == SubsBy(its, 0, Len(StreamBytes(its)))

\* One defragment call on the whole stream, on a handler as __init__ leaves
\* it (how = "unset") or as fragment_data leaves it (how = "set").
WholeStream(how) ==
    IF how = "set"
    THEN defragment(<<>>, -1, HEADER_LENGTH, [i \in 1..MESSAGE_LENGTH_LENGTH |-> 0],
                    FALSE, stream)
    ELSE defragment(<<>>, -1, NoAttr, NoAttr, FALSE, stream)

(***************************************************************************)
(* The claims about FragmentationHandler, under Spec.                      *)
(***************************************************************************)

\* C1: chunk-boundary invariance.  Once a stream of well-formed outer frames
\* has been delivered, in whatever chunks, the lists the defragment calls
\* returned, concatenated, are the list one defragment call on the whole
\* stream returns (on a handler in the same state: header_length assigned
\* for all the calls, or for none).
C1_ChunkInvariance ==
    (pos = Len(stream) /\ WellFormed(items) /\ seen \in {"set", "unset"})
        => out = WholeStream(seen).packet_list

\* C1's case: two well-formed frames delivered in several calls, an earlier
\* call having returned part of the output.
C1_Witness ==
    /\ pos = Len(stream) /\ Len(items) = 2 /\ WellFormed(items)
    /\ seen = "set" /\ Len(out) >= 2
    /\ last_ret.kind = "list" /\ last_ret.packet_list # out

\* C2: exactly-once, not-early emission.  While one outer frame is delivered
\* in pieces, the calls so far have returned nothing of it before its last
\* byte has arrived, and exactly its sub-messages, once, from then on.
C2_ExactlyOnce ==
    (Len(items) = 1 /\ items[1].kind = "frame") => out = SubsBy(items, 0, pos)

\* C2 holds of a handler whose fragment_data has run before the first
\* defragment call (as in ODINMarketFeedClient.connect), for any number of
\* well-formed frames.
C2_WhenAssigned ==
    ((\A i \in 1..Len(items) : items[i].kind = "frame") /\ seen \in {"none", "set"})
        => out = SubsBy(items, 0, pos)

\* C3: resynchronisation.  1..5 garbage bytes followed by one valid outer
\* frame, fed to an empty buffer, yield the frame's sub-messages (stated for
\* a handler whose header_length is assigned, where C2 holds).
C3_Resync ==
    (/\ Len(items) = 2
     /\ items[1].kind = "garbage" /\ Len(items[1].raw) \in 1..5
     /\ items[2].kind = "frame"
     /\ pos = Len(stream) /\ seen = "set")
        => out = items[2].subs

NoInnerLength(m) ==
    \/ Len(m) < 2
    \/ \E i \in 2..Min(HEADER_LENGTH, Len(m)) :
           ~(IsDigit(m[i]) \/ IsSpace(m[i]) \/ m[i] \in {43, 45, 95})

C7_UsableAfterFailure ==
    (/\ Len(items) >= 2 /\ items[1].kind = "bad"
     /\ \A i \in 2..Len(items) : items[i].kind = "frame"
     /\ pos = Len(stream))
        => memory_stream = <<>> /\ out = AllSubs(items)

\* C7 holds of a handler whose fragment_data has run before the first
\* defragment call.
C7_WhenAssigned ==
    (/\ \A i \in 1..Len(items) : items[i].kind \in {"bad", "frame"}
     /\ pos = Len(stream) /\ seen = "set")
        => memory_stream = <<>> /\ out = AllSubs(items)

(***************************************************************************)
(* The claims about ODINMarketFeedClient, under SessionSpec.               *)
(***************************************************************************)
IsMessage(c) == c.cb = "on_message"
IsError(c) == c.cb = "on_error"

\* The sub-messages on_message was called for, in the order of the calls.
Delivered == [i \in 1..Len(SelectSeq(log, IsMessage)) |-> SelectSeq(log, IsMessage)[i].raw]

\* Whether a can be had from b by leaving elements out.
RECURSIVE IsSubseq(_, _)
IsSubseq(a, b) ==
    IF a = <<>> THEN TRUE
    ELSE IF b = <<>> THEN FALSE
    ELSE IF Head(a) = Head(b) THEN IsSubseq(Tail(a), Tail(b))
    ELSE IsSubseq(a, Tail(b))

\* Sub-message m cut at its first marker: how many bytes come before the
\* marker (-1 when m has none), and how many after it.
PrefixLen(m) == Index(m, MARKER)
RecordLen(m) == Len(m) - (PrefixLen(m) + Len(MARKER))
HasRecord(m) == PrefixLen(m) >= 0 /\ RecordLen(m) = 64
Truncated(m) == PrefixLen(m) >= 0 /\ RecordLen(m) < 64
NotTruncated(m) == ~Truncated(m)

\* C5: FIFO delivery.  The sub-messages on_message is called for are, in the
\* order of the calls, sub-messages of the frames received in full so far in
\* the order they have in the inbound stream, none twice and no two
\* reordered; and they are all of them as long as no call of
\* _response_received has ended in its except clause.
C5_Fifo ==
    /\ IsSubseq(Delivered, SubsBy(items, 0, pos))
    /\ (on_message /\ header_length # NoAttr /\ caught = 0)
           => Delivered = SubsBy(items, 0, pos)

\* C5's case: two frames received in more than one chunk, three or more
\* sub-messages delivered, not all of them by the last call.
C5_Witness ==
    /\ on_message /\ pos = Len(stream) /\ Len(items) = 2
    /\ Len(Delivered) >= 3 /\ Delivered = AllSubs(items)
    /\ last_ret.kind = "list" /\ last_ret.packet_list # out
    /\ last_ret.packet_list # <<>>

\* C6: a decompression failure on a well-framed outer frame is reported
\* through on_error.  Each failed decompression and each call of
\* _response_received that ends in its except clause is one report, so a
\* session with on_error set has made at least that many on_error calls.
C6_DecompressionReported ==
    on_error => Len(SelectSeq(log, IsError)) >= printed + caught

\* C8: a market-record decode failure drops only the offending sub-message.
\* Every sub-message of the frames received in full so far that is not a
\* truncated market record has been delivered, those that come after a
\* truncated one in the same chunk included.
C8_OnlyOffenderDropped ==
    (on_message /\ header_length # NoAttr)
        => IsSubseq(SelectSeq(SubsBy(items, 0, pos), NotTruncated), Delivered)

\* C9: truncated record boundary.  on_message is never called for a
\* sub-message with fewer than 64 bytes after the marker, and once such a
\* sub-message has been received by a session with on_error set, on_error
\* has been called.
C9_TruncatedReported ==
    /\ \A i \in 1..Len(log) : IsMessage(log[i]) => ~Truncated(log[i].raw)
    /\ (/\ on_error /\ header_length # NoAttr
        /\ SelectSeq(SubsBy(items, 0, pos), Truncated) # <<>>)
           => SelectSeq(log, IsError) # <<>>

\* The keys of the 16 pairs in the order the claim gives, and the text of a
\* 64-byte record as the claim describes it: pair i (0..15) is decoded from
\* the 4 bytes at record offset 4 * i, the third and fourth as times.
KeyOrder == <<1, 7, 74, 73, 8, 2, 3, 5, 6, 75, 77, 78, 76, 399, 250, 88>>

PairText(i, b) ==
    DecStr(KeyOrder[i + 1]) \o <<61>>
        \o (IF i \in {2, 3} THEN FormatTime(UnpackSigned(b)) ELSE UnsignedStr(b))
        \o <<124>>

RecordText(rec) ==
    Concat([n \in 1..16 |-> PairText(n - 1, SubSeq(rec, 4 * (n - 1) + 1, 4 * (n - 1) + 4))])

MarketText(m) ==
    Utf8Ignore(SubSeq(m, 1, PrefixLen(m))) \o <<124>>
        \o RecordText(SubSeq(m, PrefixLen(m) + Len(MARKER) + 1, Len(m)))

\* C10: market record decode.  For every sub-message prefix + "|50=" + 64
\* record bytes, the text given to on_message is the prefix, "|", and the 16
\* key=value| pairs in the fixed key order, pair i decoded from the 4
\* little-endian bytes at record offset 4 * i.
C10_RecordDecode ==
    \A i \in 1..Len(log) :
        (IsMessage(log[i]) /\ HasRecord(log[i].raw))
            => log[i].text = MarketText(log[i].raw)

\* C10 holds of the sub-messages whose prefix is ASCII, where a position in
\* the decoded text is a position in the bytes.
C10_AsciiPrefix ==
    \A i \in 1..Len(log) :
        (/\ IsMessage(log[i]) /\ HasRecord(log[i].raw)
         /\ AllAscii(SubSeq(log[i].raw, 1, PrefixLen(log[i].raw))))
            => log[i].text = MarketText(log[i].raw)

\* C9 holds likewise of the sub-messages whose prefix is ASCII.
C9_AsciiPrefix ==
    \A i \in 1..Len(log) :
        (IsMessage(log[i]) /\ AllAscii(SubSeq(log[i].raw, 1, PrefixLen(log[i].raw))))
            => ~Truncated(log[i].raw)

\* Whether the text of sub-message m holds no marker.
NoMarker(m) == Index(Utf8Ignore(m), MARKER) < 0

\* C11: a sub-message without the marker is delivered as its text unchanged,
\* by exactly one on_message call.  In a session with on_message set, the
\* text of every call made for such a sub-message is its decoded text, and
\* the calls made for such sub-messages are, one for one and in order, the
\* sub-messages without marker of the frames received in full so far.
C11_PlainUnchanged ==
    (on_message /\ header_length # NoAttr)
        => /\ \A i \in 1..Len(log) :
                (IsMessage(log[i]) /\ NoMarker(log[i].raw))
                    => log[i].text = Utf8Ignore(log[i].raw)
           /\ SelectSeq(Delivered, NoMarker)
                  = SelectSeq(SubsBy(items, 0, pos), NoMarker)

\* C11 holds as long as no call of _response_received has ended in its
\* except clause.
C11_WhenNoFailure == caught = 0 => C11_PlainUnchanged

\* Whether text ends with t.
EndsWith(text, t) ==
    /\ Len(t) <= Len(text)
    /\ SubSeq(text, Len(text) - Len(t) + 1, Len(text)) = t

\* The 64 bytes that follow the '=' of the first marker of sub-message m.
RecordBytes(m) ==
    SubSeq(m, PrefixLen(m) + Len(MARKER) + 1, PrefixLen(m) + Len(MARKER) + 64)

\* C18: byte-accurate record offset.  For every sub-message that holds the
\* marker and at least 64 bytes after it, whatever bytes come before the
\* marker, the 16 pairs of the text given to on_message are decoded from the
\* 64 bytes that follow the marker's '=' in the payload.
C18_ByteAccurateOffset ==
    \A i \in 1..Len(log) :
        (IsMessage(log[i]) /\ PrefixLen(log[i].raw) >= 0 /\ RecordLen(log[i].raw) >= 64)
            => EndsWith(log[i].text, RecordText(RecordBytes(log[i].raw)))

\* C18 holds of the sub-messages whose bytes before the marker are ASCII.
C18_WhenAscii ==
    \A i \in 1..Len(log) :
        (/\ IsMessage(log[i]) /\ PrefixLen(log[i].raw) >= 0
         /\ RecordLen(log[i].raw) >= 64
         /\ \A j \in 1..PrefixLen(log[i].raw) : log[i].raw[j] < 128)
            => EndsWith(log[i].text, RecordText(RecordBytes(log[i].raw)))

(***************************************************************************)
(* The claims about fragment_data at the length ceiling, under FramingSpec.*)
(***************************************************************************)

\* Digit number i (1..5, from the left) of n written in 5 decimal digits.
DigitOf(n, i) == 48 + ((n \div (10 ^ (MESSAGE_LENGTH_LENGTH - i))) % 10)

\* C12: outbound header within the ceiling.  For a compressed length L of at
\* most 99999, fragment_data returns 6 + L bytes: the tag byte 5, the 5
\* decimal digits of L, the compressed bytes; and _is_length of the first 6
\* bytes returns L.
C12_HeaderWithinCeiling ==
    (frame.kind # "none" /\ compressed_length <= LengthCeiling)
        => /\ frame.kind = "bytes"
           /\ frame.len = 6 + compressed_length
           /\ Len(frame.header) = 6
           /\ frame.header[1] = 5
           /\ \A i \in 1..5 : frame.header[i + 1] = DigitOf(compressed_length, i)
           /\ frame.payload_kept
           /\ _is_length(frame.header) = [raised |-> FALSE, val |-> compressed_length]

\* C12's case: a compressed payload of exactly 99999 bytes has been framed.
C12_Witness == frame.kind = "bytes" /\ compressed_length = LengthCeiling

\* C13: outbound overflow is a hard error.  For a compressed length of
\* 100000 or more, fragment_data fails and returns no frame.
C13_OverflowIsError ==
    (frame.kind # "none" /\ compressed_length > LengthCeiling)
        => frame.kind = "raise"

(***************************************************************************)
(* More claims about FragmentationHandler, under Spec.                     *)
(***************************************************************************)

\* C14: outbound framing shares no state with inbound processing.  Once a
\* stream of well-formed frames has been delivered, what the defragment calls
\* returned is what they return on a handler on which fragment_data never
\* ran, however many fragment_data calls came before or between them.
C14_FramingIndependent ==
    (pos = Len(stream) /\ WellFormed(items))
        => out = WholeStream("unset").packet_list

\* C14 read on the fields: no step that leaves the inbound buffer and the
\* delivery position alone (a fragment_data call) writes a field that
\* _get_message_length reads.
C14_NoSharedField ==
    [][(pos' = pos) => (header_length' = header_length /\ header_char' = header_char)]_vars

\* Whether the 6 bytes h are a tag and 5 ASCII digits, and the length they
\* declare.
ValidHeader(h) ==
    /\ Len(h) = 6
    /\ h[1] \in {5, 2}
    /\ \A i \in 2..6 : h[i] \in 48..57

Declared(h) ==
    10000 * (h[2] - 48) + 1000 * (h[3] - 48) + 100 * (h[4] - 48)
        + 10 * (h[5] - 48) + (h[6] - 48)

Bounded(buffer) ==
    \/ Len(buffer) <= 6
    \/ /\ ValidHeader(SubSeq(buffer, 1, 6))
       /\ Len(buffer) - 6 < Declared(SubSeq(buffer, 1, 6))

\* C16: bounded storage.  After every defragment call the buffer holds at
\* most 6 bytes, or a valid 6-byte header declaring L and fewer than L
\* payload bytes.
C16_BoundedStorage == last_ret.kind # "none" => Bounded(memory_stream)

\* C16 holds after every defragment call that returned a list.
C16_WhenReturned == last_ret.kind = "list" => Bounded(memory_stream)

\* Where the last item of its ends that lies within the first p bytes of the
\* stream; off is where its starts.
RECURSIVE FramesEnd(_, _, _)
FramesEnd(its, off, p) ==
    IF its = <<>> \/ off + Len(ItemBytes(Head(its))) > p THEN off
    ELSE FramesEnd(Tail(its), off + Len(ItemBytes(Head(its))), p)

AllFramed(its) ==
    \A i \in 1..Len(its) : its[i].kind \in {"frame", "wrapped", "bad"}

C26_NeverRaises == last_ret.kind # "raise"

\* C26 holds of the streams in which no tag byte 5 or 2 is followed, among
\* the next 5 bytes, by one that is not ASCII.
C26_WhenAscii ==
    (\A i \in 1..Len(stream) :
        stream[i] \in {TAG_COMPRESSED, TAG_OTHER}
            => \A j \in 1..PACKET_HEADER_SIZE :
                   i + j <= Len(stream) => stream[i + j] < 128)
        => last_ret.kind # "raise"

\* C29: every defragment call terminates.  Each iteration of the outer scan
\* loop moves the scan position forward by at least 1 byte, the next one
\* starting where it stopped, or is the last of the call; each iteration of
\* the inner split loop leaves at least 7 bytes less of the decompressed
\* payload, or is the last for that payload.
C29_LoopsAdvance ==
    /\ \A i \in 1..Len(iterations.outer) :
           \/ /\ iterations.outer[i].stop
              /\ i = Len(iterations.outer)
           \/ /\ ~iterations.outer[i].stop
              /\ iterations.outer[i].to >= iterations.outer[i].from + 1
              /\ i < Len(iterations.outer)
                     => iterations.outer[i + 1].from = iterations.outer[i].to
    /\ \A i \in 1..Len(iterations.inner) :
           \/ iterations.inner[i].stop
           \/ /\ iterations.inner[i].to <= iterations.inner[i].from - 7
              /\ iterations.inner[i].to >= 1
              /\ i < Len(iterations.inner)
              /\ iterations.inner[i + 1].from = iterations.inner[i].to

\* C29's case: one call has skipped a byte, gone on to a frame, and split
\* its payload in more than one iteration.
C29_Witness ==
    /\ Len(iterations.outer) >= 2
    /\ iterations.outer[1].to = iterations.outer[1].from + 1
    /\ \E i \in 1..Len(iterations.inner) : ~iterations.inner[i].stop
    /\ Len(last_ret.packet_list) >= 2

(***************************************************************************)
(* The claim about disconnect, under LifecycleSpec.                        *)
(***************************************************************************)

\* C15: cancellation stops delivery.  Once disconnect() has returned on a
\* connection (one that connect opened), no step hands a further chunk to
\* defragment (the read position and the handler's buffer stay as they are)
\* and none makes a further callback, whatever the transport still holds.
C15_CancelStopsDelivery ==
    [][(disconnect_at = "returned" /\ websocket = "closed")
           => /\ pos' = pos
              /\ memory_stream' = memory_stream
              /\ out' = out
              /\ log' = log]_vars

\* C15's case: disconnect() has returned on a connection that delivered a
\* sub-message and whose transport still holds bytes, part of a frame being
\* in the handler's buffer.
C15_Witness ==
    /\ disconnect_at = "returned"
    /\ websocket = "closed"
    /\ receive_task = "done"
    /\ Len(log) > 0
    /\ memory_stream # <<>>
    /\ pos < Len(stream)

(***************************************************************************)
(* The claims about the inner split, under InnerSpec.                      *)
(***************************************************************************)

\* Whether the one frame of the stream has been received by a handler whose
\* fragment_data ran before the first defragment call.
SplitDone == Len(items) = 1 /\ pos = Len(stream) /\ seen = "set"

\* C19: the inner split stops on a short tail.  When 1 to 5 bytes remain
\* after the last complete sub-message of a payload, the split emits the
\* complete sub-messages and nothing for those bytes.
C19_ShortTailStops ==
    (SplitDone /\ Len(items[1].raw) \in 1..(HEADER_LENGTH - 1))
        => out = items[1].subs

\* C19 holds of the tails of one byte, which hold no digit of a length.
C19_OneByteTail ==
    (SplitDone /\ Len(items[1].raw) = 1) => out = items[1].subs

\* Whether raw starts with an inner header of 5 digits that declares more
\* bytes than follow it.
OverDeclares(raw) ==
    /\ Len(raw) >= HEADER_LENGTH
    /\ \A i \in 2..HEADER_LENGTH : raw[i] \in 48..57
    /\ Declared(SubSeq(raw, 1, HEADER_LENGTH)) > Len(raw) - HEADER_LENGTH

\* C20: the declared length is honoured.  Every element the inner split
\* emits has the length its inner header declares: an inner header that
\* declares more bytes than remain in the payload produces no element.
C20_DeclaredHonoured ==
    (SplitDone /\ OverDeclares(items[1].raw))
        => /\ Len(out) = Len(items[1].subs)
           /\ \A i \in 1..Len(out) : Len(out[i]) = Len(items[1].subs[i])

\* C20 holds of the elements whose inner header declares no more than
\* remains: they have the declared length.
C20_WhenComplete ==
    (SplitDone /\ items[1].raw \in LongTails /\ ~OverDeclares(items[1].raw))
        => out = items[1].subs
               \o <<SubSeq(items[1].raw, HEADER_LENGTH + 1,
                            HEADER_LENGTH + Declared(SubSeq(items[1].raw, 1, HEADER_LENGTH)))>>

\* Whether the first frame of the stream is one whose payload holds a
\* malformed inner header.
MalformedFirst == Len(items) >= 1 /\ items[1] \in MalformedItems

\* What a stream that starts with such a frame is to yield: the sub-messages
\* before the malformed header, and those of the frames after it.
MalformedYield == items[1].subs \o AllSubs(Tail(items))

\* C21: a malformed inner length is local.  When the k-th inner header of a
\* payload has a length that is no integer or not positive, the k - 1
\* sub-messages before it are emitted, the rest of the payload is dropped,
\* the outer frame is consumed in full, and the frames after it are parsed.
C21_MalformedIsLocal ==
    (MalformedFirst /\ pos = Len(stream) /\ last_ret.kind # "none")
        => memory_stream = <<>> /\ out = MalformedYield

\* C21 holds of a handler whose fragment_data has run before the first
\* defragment call.
C21_WhenAssigned ==
    (MalformedFirst /\ pos = Len(stream) /\ seen = "set")
        => memory_stream = <<>> /\ out = MalformedYield

\* On a handler without header_length the frames are consumed all the same.
C21_Consumed ==
    (MalformedFirst /\ pos = Len(stream) /\ last_ret.kind # "none")
        => memory_stream = <<>>

(***************************************************************************)
(* The claim about set_compression, under SendSpec.                        *)
(***************************************************************************)

\* What a frame carries after its 6-byte header.
Payload(bytes) == Slice(bytes, PACKET_HEADER_SIZE + 1, Len(bytes))

\* C24: set_compression enables or disables compression.  A frame built by
\* send_message while the setting is OFF carries the bytes of the message as
\* they are, and one built while it is ON carries them compressed.
C24_SettingDecides ==
    \A i \in 1..Len(sent) :
        /\ sent[i].status = "OFF" => Payload(sent[i].bytes) = sent[i].text
        /\ sent[i].status = "ON" => Payload(sent[i].bytes) = compress(sent[i].text)

\* Every frame of send_message carries the message compressed, whatever the
\* setting.
C24_AlwaysCompressed ==
    \A i \in 1..Len(sent) :
        /\ Payload(sent[i].bytes) = compress(sent[i].text)
        /\ Payload(sent[i].bytes) # sent[i].text

(***************************************************************************)
(* The claim about on_close, under LifecycleFairSpec.                      *)
(***************************************************************************)

IsClose(c) == c.cb = "on_close"

\* C25: close notification.  When an established connection has ended (by
\* the server, by a transport error or by disconnect()) on a client with
\* on_close set, on_close is eventually called.
C25_CloseNotified ==
    (on_close /\ websocket = "closed") ~> (SelectSeq(log, IsClose) # <<>>)

\* No step calls on_close: it is never in the log.
C25_NeverCalled == SelectSeq(log, IsClose) = <<>>

(***************************************************************************)
(* The claims about connect, under ConnectSpec.                            *)
(***************************************************************************)

IsOpen(c) == c.cb = "on_open"

\* C27: open before messages.  On a client with on_open and on_message set,
\* every on_message call comes after the on_open call of connect().
C27_OpenBeforeMessages ==
    (on_open /\ on_message)
        => \A i \in 1..Len(log) :
               IsMessage(log[i]) => \E j \in 1..(i - 1) : IsOpen(log[j])

\* C27 holds of the messages the receive task handles once connect() is past
\* the wait for websocket.send.
C27_AfterLogin ==
    [][(on_open /\ Len(SelectSeq(log', IsMessage)) > Len(SelectSeq(log, IsMessage))
            /\ connect_at \in {"opening", "returned"})
           => SelectSeq(log, IsOpen) # <<>>]_vars

\* C28: a failed connect leaves nothing running.  Once connect() has raised,
\* no receive task of the call is alive.
C28_NothingLeftRunning == connect_at = "raised" => receive_task # "running"

\* C28 holds of the failures before line 258: a bad argument and a refused
\* connection leave no task, and no callback follows.
C28_BeforeTask ==
    (connect_at = "raised" /\ websocket = "None")
        => receive_task = "None" /\ SelectSeq(log, IsMessage) = <<>>

\* The connections of the client before the current one were all left by a
\* disconnect() that had returned.
AllDisconnected ==
    \A i \in 1..Len(earlier) : earlier[i].left = "returned"

\* C22: after disconnect() followed by a new connect() on the same client
\* the reassembly buffer is empty: when every connection before the current
\* one was ended by a disconnect() that returned, and the current one has
\* received nothing yet, memory_stream holds no byte.
C22_FreshBuffer ==
    (earlier # <<>> /\ AllDisconnected /\ pos = 0) => memory_stream = <<>>

\* The bytes the first n connections that were left behind handed to the
\* handler, in the order of the connections.
RECURSIVE DeliveredBefore(_)
DeliveredBefore(n) ==
    IF n = 0 THEN <<>>
    ELSE DeliveredBefore(n - 1) \o SubSeq(earlier[n].stream, 1, earlier[n].pos)

\* C22, what the code does keep: the bytes a reconnected client has in its
\* buffer before it receives are bytes the connections before it sent, a
\* receive task that a disconnect() ended writing nothing afterwards.
C22_OnlyLeftovers ==
    (earlier # <<>> /\ AllDisconnected /\ pos = 0)
        => /\ \A i \in 1..Len(earlier) : earlier[i].task = "done"
           /\ EndsWith(DeliveredBefore(Len(earlier)), memory_stream)

\* A receive task that can still run.
Alive(task) == task \in {"running", "failing", "cancelling"}

\* The receive tasks of the client that can still run.
AliveTasks ==
    (IF Alive(receive_task) THEN 1 ELSE 0)
        + Cardinality({ i \in 1..Len(earlier) : Alive(earlier[i].task) })

\* C23: for every sequence of connect, disconnect and dispose calls on one
\* client, at most one receive task that feeds the client's
\* FragmentationHandler is alive at any time.
C23_SingleWriter == AliveTasks <= 1

\* C23, what the code does keep: when every connect() after the first
\* follows a disconnect() that returned, one receive task at most is alive.
C23_WhenDisconnected == AllDisconnected => AliveTasks <= 1

====
